---- MODULE Spec2Model ----
(***************************************************************************)
(* Model of create_sp_doc (TEMPLATE_StoredProcedure.py): the assembly of   *)
(* a stored-procedure documentation record into an ordered sequence of     *)
(* document blocks.  Every block the function appends to the document is   *)
(* one element of `doc`; a text is the tuple of the pieces its f-string    *)
(* concatenates (numbers rendered by ToString, as str() does).             *)
(*                                                                         *)
(* python-docx: add_paragraph(text) adds a run only when text is truthy,   *)
(* so `p.runs[0]` after add_paragraph("") raises IndexError and the        *)
(* function returns no document.                                           *)
(***************************************************************************)
EXTENDS Integers, Sequences, FiniteSets, TLC

VARIABLES rec, doc, section_num, pc, ret

vars == <<rec, doc, section_num, pc, ret>>

(* ---------------- bounds of the explored inputs ---------------- *)
MaxRecent == 8
MaxSteps == 3
MaxHistory == 3

(* ---------------- program constants ---------------- *)
RecentLimit == 5
DepThreshold == 30
PerfThreshold == 50
ErrThreshold == 40

(* ---------------- blocks ---------------- *)
Blk(kind, text) == [kind |-> kind, text |-> text, cells |-> <<>>, color |-> "none"]

MetaBlk(label, value, color) ==
    [kind |-> "Meta", text |-> <<label, " ">> \o value, cells |-> <<>>, color |-> color]

RowBlk(kind, cells) == [kind |-> kind, text |-> <<>>, cells |-> cells, color |-> "none"]

add_divider(d) == Append(d, Blk("Divider", <<>>))

add_subheader(d, text) == Append(d, Blk("Subheading", text))

add_code_block(d, code) == Append(d, Blk("CodeBlock", <<code>>))

SectionHeading(d, text) == Append(d, Blk("Heading", text))

(* A state of the function body: the document so far, the section counter *)
(* (0 while the local is still unassigned) and the exception raised.      *)
St(d, n, e) == [doc |-> d, section_num |-> n, err |-> e]

(* doc.add_paragraph(text) followed by p.runs[0]: IndexError on empty text *)
ParagraphRun0(s, kind, text, empty) ==
    IF empty
    THEN St(Append(s.doc, Blk(kind, <<>>)), s.section_num, "IndexError")
    ELSE St(Append(s.doc, Blk(kind, text)), s.section_num, s.err)

(* ---------------- sections of create_sp_doc ---------------- *)
HeaderSec(s, r) ==
    LET doc_title == IF r.isQA THEN "QA STORED PROCEDURE" ELSE "STORED PROCEDURE"
        qa_label == IF r.isQA THEN "QA Procedure" ELSE "Production"
        d1 == Append(s.doc, Blk("Title", <<doc_title>>))
        d2 == Append(d1, Blk("Paragraph", <<"Technical Documentation">>))
        d3 == Append(d2, Blk("Paragraph", <<r.schema, ".", r.spName>>))
        metadata == <<
            MetaBlk("Version:", <<"v", r.version>>, "gray"),
            MetaBlk("Type:", <<qa_label>>, IF r.isQA THEN "green" ELSE "gray"),
            MetaBlk("Created:", <<r.createdDate>>, "gray"),
            MetaBlk("Created By:", <<r.createdBy>>, "gray"),
            MetaBlk("Complexity:", <<ToString(r.complexityScore), "/100">>, "gray") >>
    IN  St(add_divider(d3 \o metadata), s.section_num, s.err)

ChangeBullet(change) ==
    Blk("Bullet", <<change.date, " - ", change.summary, " (", change.refDoc, ")">>)

(* fault variant: the slice [:5] is forgotten *)
RecentChangesSec_NoTruncation(s, r) ==
    LET d1 == SectionHeading(s.doc, <<"5 MOST RECENT CHANGES">>)
        d2 == IF r.recentChanges # <<>>
              THEN d1 \o [i \in 1..Len(r.recentChanges) |-> ChangeBullet(r.recentChanges[i])]
              ELSE Append(d1, Blk("Paragraph", <<"No changes recorded yet.">>))
    IN  St(add_divider(d2), s.section_num, s.err)

RecentChangesSec(s, r) ==
    LET d1 == SectionHeading(s.doc, <<"5 MOST RECENT CHANGES">>)
        shown == SubSeq(r.recentChanges, 1,
                        IF Len(r.recentChanges) < RecentLimit
                        THEN Len(r.recentChanges) ELSE RecentLimit)
        d2 == IF r.recentChanges # <<>>
              THEN d1 \o [i \in 1..Len(shown) |-> ChangeBullet(shown[i])]
              ELSE Append(d1, Blk("Paragraph", <<"No changes recorded yet.">>))
    IN  St(add_divider(d2), s.section_num, s.err)

(* fault variant: QA mode writes the disclaimer as a paragraph of its own *)
PurposeSec_QAExtraParagraph(s, r) ==
    LET d1 == SectionHeading(s.doc, <<"1", ". PURPOSE">>)
        qa_purpose_intro ==
            "This is a QA validation procedure designed to verify data quality and integrity. "
        d2 == IF r.isQA THEN Append(d1, Blk("Paragraph", <<qa_purpose_intro>>)) ELSE d1
        s1 == ParagraphRun0(St(d2, s.section_num, s.err), "Paragraph",
                            <<r.purpose>>, r.purpose = "")
    IN  IF s1.err # "none" THEN s1
        ELSE St(add_divider(s1.doc), s1.section_num, s1.err)

PurposeSec(s, r) ==
    LET d1 == SectionHeading(s.doc, <<"1", ". PURPOSE">>)
        qa_purpose_intro ==
            "This is a QA validation procedure designed to verify data quality and integrity. "
        s1 == IF r.isQA
              THEN ParagraphRun0(St(d1, s.section_num, s.err), "Paragraph",
                                 <<qa_purpose_intro, r.purpose>>, FALSE)
              ELSE ParagraphRun0(St(d1, s.section_num, s.err), "Paragraph",
                                 <<r.purpose>>, r.purpose = "")
    IN  IF s1.err # "none" THEN s1
        ELSE St(add_divider(s1.doc), s1.section_num, s1.err)

(* fault variant: the counter starts at 3 also when What's New is skipped *)
WhatsNewSec_SkipsNumber(s, r) ==
    IF r.whatsNew # ""
    THEN LET d1 == SectionHeading(s.doc, <<"2", ". WHAT'S NEW IN VERSION ", r.version>>)
             d2 == add_subheader(d1, <<"Changes in This Version:">>)
             d3 == Append(d2, Blk("Paragraph", <<r.whatsNew>>))
         IN  St(add_divider(d3), 3, s.err)
    ELSE St(s.doc, 3, s.err)

(* fault variant: the counter starts at 2 also when What's New took number 2 *)
WhatsNewSec_ReusesNumber(s, r) ==
    IF r.whatsNew # ""
    THEN LET d1 == SectionHeading(s.doc, <<"2", ". WHAT'S NEW IN VERSION ", r.version>>)
             d2 == add_subheader(d1, <<"Changes in This Version:">>)
             d3 == Append(d2, Blk("Paragraph", <<r.whatsNew>>))
         IN  St(add_divider(d3), 2, s.err)
    ELSE St(s.doc, 2, s.err)

WhatsNewSec(s, r) ==
    IF r.whatsNew # ""
    THEN LET d1 == SectionHeading(s.doc, <<"2", ". WHAT'S NEW IN VERSION ", r.version>>)
             d2 == add_subheader(d1, <<"Changes in This Version:">>)
             d3 == Append(d2, Blk("Paragraph", <<r.whatsNew>>))
         IN  St(add_divider(d3), 3, s.err)
    ELSE St(s.doc, 2, s.err)

HasDefault(param) ==
    "defaultValue" \in DOMAIN param /\ param["defaultValue"] # ""

RECURSIVE RenderParams(_, _, _)
RenderParams(s, params, i) ==
    IF i > Len(params) \/ s.err # "none" THEN s
    ELSE LET param == params[i]
             d1 == add_subheader(s.doc, <<param["name"], " (", param["type"], "):">>)
             s1 == ParagraphRun0(St(d1, s.section_num, s.err), "Paragraph",
                                 <<param["description"]>>, param["description"] = "")
             s2 == IF s1.err = "none" /\ HasDefault(param)
                   THEN St(Append(s1.doc,
                                  Blk("Paragraph", <<"Default: ", param["defaultValue"]>>)),
                           s1.section_num, s1.err)
                   ELSE s1
         IN  RenderParams(s2, params, i + 1)

ParametersSec(s, r) ==
    LET d1 == SectionHeading(s.doc, <<ToString(s.section_num), ". PARAMETERS">>)
        s1 == IF r.parameters # <<>>
              THEN RenderParams(St(d1, s.section_num, s.err), r.parameters, 1)
              ELSE St(Append(d1, Blk("Paragraph", <<"No parameters">>)),
                      s.section_num, s.err)
    IN  IF s1.err # "none" THEN s1
        ELSE St(add_divider(s1.doc), s1.section_num + 1, s1.err)

RECURSIVE RenderSteps(_, _, _)
RenderSteps(s, steps, i) ==
    IF i > Len(steps) \/ s.err # "none" THEN s
    ELSE LET step == steps[i]
             d1 == add_subheader(s.doc, <<"Step ", ToString(i), ": ", step.title>>)
             s1 == ParagraphRun0(St(d1, s.section_num, s.err), "Paragraph",
                                 <<step.description>>, step.description = "")
         IN  RenderSteps(s1, steps, i + 1)

(* fault variant: the step loop starts at the second step *)
LogicFlowSec_SkipsFirstStep(s, r) ==
    LET d1 == SectionHeading(s.doc, <<ToString(s.section_num), ". LOGIC FLOW">>)
        s1 == IF r.logicFlow.isList
              THEN RenderSteps(St(d1, s.section_num, s.err), r.logicFlow.steps, 2)
              ELSE ParagraphRun0(St(d1, s.section_num, s.err), "Paragraph",
                                 <<r.logicFlow.text>>, r.logicFlow.text = "")
    IN  IF s1.err # "none" THEN s1
        ELSE St(add_divider(s1.doc), s1.section_num + 1, s1.err)

LogicFlowSec(s, r) ==
    LET d1 == SectionHeading(s.doc, <<ToString(s.section_num), ". LOGIC FLOW">>)
        s1 == IF r.logicFlow.isList
              THEN RenderSteps(St(d1, s.section_num, s.err), r.logicFlow.steps, 1)
              ELSE ParagraphRun0(St(d1, s.section_num, s.err), "Paragraph",
                                 <<r.logicFlow.text>>, r.logicFlow.text = "")
    IN  IF s1.err # "none" THEN s1
        ELSE St(add_divider(s1.doc), s1.section_num + 1, s1.err)

(* the source prefixes each name with U+2022 and a space; written "(bullet) " here *)
DepBullets(names) == [i \in 1..Len(names) |-> Blk("Bullet", <<"(bullet) ", names[i]>>)]

DepKeyBlock(d, deps, key, label) ==
    IF key \in DOMAIN deps /\ deps[key] # <<>>
    THEN add_subheader(d, <<label>>) \o DepBullets(deps[key])
    ELSE d

(* fault variant: the Dependencies branch forgets section_num += 1 *)
DependenciesSec_NoIncrement(s, r) ==
    IF r.complexityScore > DepThreshold /\ DOMAIN r.dependencies # {}
    THEN LET d1 == SectionHeading(s.doc, <<ToString(s.section_num), ". DEPENDENCIES">>)
             d2 == DepKeyBlock(d1, r.dependencies, "tables", "Tables Accessed:")
             d3 == DepKeyBlock(d2, r.dependencies, "procedures", "Stored Procedures Called:")
         IN  St(add_divider(d3), s.section_num, s.err)
    ELSE s

DependenciesSec(s, r) ==
    IF r.complexityScore > DepThreshold /\ DOMAIN r.dependencies # {}
    THEN LET d1 == SectionHeading(s.doc, <<ToString(s.section_num), ". DEPENDENCIES">>)
             d2 == DepKeyBlock(d1, r.dependencies, "tables", "Tables Accessed:")
             d3 == DepKeyBlock(d2, r.dependencies, "procedures", "Stored Procedures Called:")
         IN  St(add_divider(d3), s.section_num + 1, s.err)
    ELSE s

RECURSIVE RenderExamples(_, _, _)
RenderExamples(s, examples, i) ==
    IF i > Len(examples) \/ s.err # "none" THEN s
    ELSE LET example == examples[i]
             d1 == add_subheader(s.doc, <<"Example ", ToString(i), ": ", example["title"]>>)
             d2 == add_code_block(d1, example["code"])
             s1 == IF "explanation" \in DOMAIN example
                   THEN ParagraphRun0(St(d2, s.section_num, s.err), "Paragraph",
                                      <<example["explanation"]>>, example["explanation"] = "")
                   ELSE St(d2, s.section_num, s.err)
         IN  RenderExamples(s1, examples, i + 1)

UsageExamplesSec(s, r) ==
    LET d1 == SectionHeading(s.doc, <<ToString(s.section_num), ". USAGE EXAMPLES">>)
        s1 == RenderExamples(St(d1, s.section_num, s.err), r.usageExamples, 1)
    IN  IF s1.err # "none" THEN s1
        ELSE St(add_divider(s1.doc), s1.section_num + 1, s1.err)

(* fault variant: the complexity comparison is >= instead of > *)
PerformanceNotesSec_Inclusive(s, r) ==
    IF r.complexityScore >= PerfThreshold /\ r.performanceNotes # ""
    THEN LET d1 == SectionHeading(s.doc, <<ToString(s.section_num), ". PERFORMANCE NOTES">>)
             d2 == Append(d1, Blk("Paragraph", <<r.performanceNotes>>))
         IN  St(add_divider(d2), s.section_num + 1, s.err)
    ELSE s

PerformanceNotesSec(s, r) ==
    IF r.complexityScore > PerfThreshold /\ r.performanceNotes # ""
    THEN LET d1 == SectionHeading(s.doc, <<ToString(s.section_num), ". PERFORMANCE NOTES">>)
             d2 == Append(d1, Blk("Paragraph", <<r.performanceNotes>>))
         IN  St(add_divider(d2), s.section_num + 1, s.err)
    ELSE s

ErrorHandlingSec(s, r) ==
    IF r.complexityScore > ErrThreshold /\ r.errorHandling # ""
    THEN LET d1 == SectionHeading(s.doc, <<ToString(s.section_num), ". ERROR HANDLING">>)
             d2 == Append(d1, Blk("Paragraph", <<r.errorHandling>>))
         IN  St(add_divider(d2), s.section_num + 1, s.err)
    ELSE s

HistoryRow(entry) ==
    RowBlk("TableRow",
           << <<"v", entry.version>>, <<entry.date>>, <<entry.changedBy>>,
              IF entry.refDoc # ""
              THEN <<entry.changes, " (Ref: ", entry.refDoc, ")">>
              ELSE <<entry.changes>> >>)

(* fault variant: the table is built without the `if fullVersionHistory` guard *)
FullVersionHistorySec_Unguarded(s, r) ==
    LET d1 == SectionHeading(s.doc, <<ToString(s.section_num), ". FULL VERSION HISTORY">>)
        headers == << <<"Version">>, <<"Date">>, <<"Changed By">>, <<"Changes">> >>
        d2 == Append(d1, RowBlk("TableHeader", headers))
              \o [i \in 1..Len(r.fullVersionHistory) |-> HistoryRow(r.fullVersionHistory[i])]
    IN  St(d2, s.section_num, s.err)

FullVersionHistorySec(s, r) ==
    LET d1 == SectionHeading(s.doc, <<ToString(s.section_num), ". FULL VERSION HISTORY">>)
        headers == << <<"Version">>, <<"Date">>, <<"Changed By">>, <<"Changes">> >>
        d2 == IF r.fullVersionHistory # <<>>
              THEN Append(d1, RowBlk("TableHeader", headers))
                   \o [i \in 1..Len(r.fullVersionHistory) |->
                          HistoryRow(r.fullVersionHistory[i])]
              ELSE d1
    IN  St(d2, s.section_num, s.err)

(* The whole body of create_sp_doc on record r: the sections in program   *)
(* order, stopping at the first exception.                                *)
create_sp_doc(r) ==
    LET s0 == St(<<>>, 0, "none")
        s1 == HeaderSec(s0, r)
        s2 == RecentChangesSec(s1, r)
        s3 == PurposeSec(s2, r)
        s4 == IF s3.err # "none" THEN s3 ELSE WhatsNewSec(s3, r)
        s5 == IF s4.err # "none" THEN s4 ELSE ParametersSec(s4, r)
        s6 == IF s5.err # "none" THEN s5 ELSE LogicFlowSec(s5, r)
        s7 == IF s6.err # "none" THEN s6 ELSE DependenciesSec(s6, r)
        s8 == IF s7.err # "none" THEN s7 ELSE UsageExamplesSec(s7, r)
        s9 == IF s8.err # "none" THEN s8 ELSE PerformanceNotesSec(s8, r)
        s10 == IF s9.err # "none" THEN s9 ELSE ErrorHandlingSec(s9, r)
    IN  IF s10.err # "none" THEN s10 ELSE FullVersionHistorySec(s10, r)

(* ---------------- input records ---------------- *)
(* recentChanges of length n: entry k is the k-th most recent change; as in *)
(* the sample data the oldest one carries an empty refDoc.                  *)
RecentOf(n) ==
    [k \in 1..n |-> [date |-> "2024-" \o ToString(k), summary |-> "change " \o ToString(k),
                     refDoc |-> IF k = n THEN "" ELSE "DF-" \o ToString(k)]]

HistoryOf(n) ==
    [k \in 1..n |-> [version |-> "1." \o ToString(n - k), date |-> "2024-" \o ToString(k),
                     changedBy |-> "A.Kirby", changes |-> "change " \o ToString(k),
                     refDoc |-> IF k = n THEN "" ELSE "DF-" \o ToString(k)]]

StepsOf(n) ==
    [k \in 1..n |-> [title |-> "title " \o ToString(k), description |-> "does " \o ToString(k)]]

ListFlow(n) == [isList |-> TRUE, steps |-> StepsOf(n), text |-> ""]

TextFlow(t) == [isList |-> FALSE, steps |-> <<>>, text |-> t]

LogicFlows == {ListFlow(n) : n \in 0..MaxSteps} \cup {TextFlow(t) : t \in {"", "Validates then updates."}}

ParamNoDefault ==
    [name |-> "@CustomerID", type |-> "INT", description |-> "Unique customer identifier"]

(* defaultValue None or "" are both falsy; "" stands for either *)
ParamFalsyDefault ==
    [name |-> "@Email", type |-> "VARCHAR(255)", description |-> "Customer email address",
     defaultValue |-> ""]

ParamDefault ==
    [name |-> "@Phone", type |-> "VARCHAR(20)", description |-> "Customer phone number",
     defaultValue |-> "NULL"]

ParameterLists == { <<>>, <<ParamNoDefault>>, <<ParamFalsyDefault, ParamDefault>> }

ExampleOf(withExplanation) ==
    IF withExplanation
    THEN [title |-> "Update customer email", code |-> "EXEC dbo.usp_Customer_Update",
          explanation |-> "Updates email address."]
    ELSE [title |-> "Update customer email", code |-> "EXEC dbo.usp_Customer_Update"]

ExampleLists == { <<>>, <<ExampleOf(TRUE)>>, <<ExampleOf(FALSE), ExampleOf(TRUE)>> }

(* dependencies: a mapping with optional keys; None and {} are the empty mapping *)
DepKeys == {"tables", "procedures"}

DepValues == { <<>>, <<"dbo.Customers">> }

DependencyMaps == UNION { [K -> DepValues] : K \in SUBSET DepKeys }

Scores == {0 - 1, 0, DepThreshold, DepThreshold + 1, ErrThreshold, ErrThreshold + 1,
           PerfThreshold, PerfThreshold + 1, 100, 101}

Identifiers == { <<"dbo", "usp_Customer_Update">>, <<"", "usp_Customer_Update">>, <<"dbo", "">> }

Record(isQA, ident, purpose, score, whatsNew, deps, perf, err, recent, params, flow, examples, history) ==
    [ isQA |-> isQA, schema |-> ident[1], spName |-> ident[2], version |-> "1.2",
      createdDate |-> "2024-10-01", createdBy |-> "A.Kirby",
      purpose |-> purpose, complexityScore |-> score, whatsNew |-> whatsNew,
      dependencies |-> deps, performanceNotes |-> perf, errorHandling |-> err,
      recentChanges |-> recent, parameters |-> params, logicFlow |-> flow,
      usageExamples |-> examples, fullVersionHistory |-> history ]

(* Records that vary what the section gates and the title block read. *)
GateRecords ==
    { Record(q, id, pu, sc, wn, dp, pf, er,
             RecentOf(2), <<ParamDefault>>, ListFlow(2), <<ExampleOf(TRUE)>>, HistoryOf(2)) :
        q \in BOOLEAN, id \in Identifiers, pu \in {"", "Updates customer information."},
        sc \in Scores, wn \in {"", "Added error handling."}, dp \in DependencyMaps,
        pf \in {"", "Uses covering index."}, er \in {"", "Returns error code -1."} }

(* Records that vary the shapes of the section bodies. *)
BodyRecords ==
    { Record(FALSE, <<"dbo", "usp_Customer_Update">>, "Updates customer information.",
             ErrThreshold + 1, wn, [k \in DepKeys |-> <<"dbo.Customers">>], "",
             "Returns error code -1.",
             RecentOf(n), pa, fl, ex, HistoryOf(h)) :
        wn \in {"", "Added error handling."}, n \in 0..MaxRecent, pa \in ParameterLists,
        fl \in LogicFlows, ex \in ExampleLists, h \in 0..MaxHistory }

(* ---------------- the run ---------------- *)
Init ==
    /\ rec \in GateRecords \cup BodyRecords
    /\ doc = <<>>
    /\ section_num = 0
    /\ pc = "header"
    /\ ret = [status |-> "none", doc |-> <<>>]

Cur == St(doc, section_num, "none")

(* One section of the body: its blocks are appended and control moves on, *)
(* or the exception it raises ends the call with no document returned.    *)
Advance(s, next) ==
    /\ doc' = s.doc
    /\ section_num' = s.section_num
    /\ IF s.err # "none"
       THEN pc' = "raised" /\ ret' = [status |-> s.err, doc |-> <<>>]
       ELSE pc' = next /\ UNCHANGED ret
    /\ UNCHANGED rec

Header == pc = "header" /\ Advance(HeaderSec(Cur, rec), "recent")

RecentChanges == pc = "recent" /\ Advance(RecentChangesSec(Cur, rec), "purpose")

Purpose == pc = "purpose" /\ Advance(PurposeSec(Cur, rec), "whatsnew")

WhatsNew == pc = "whatsnew" /\ Advance(WhatsNewSec(Cur, rec), "parameters")

Parameters == pc = "parameters" /\ Advance(ParametersSec(Cur, rec), "logicflow")

LogicFlow == pc = "logicflow" /\ Advance(LogicFlowSec(Cur, rec), "dependencies")

Dependencies == pc = "dependencies" /\ Advance(DependenciesSec(Cur, rec), "usage")

UsageExamples == pc = "usage" /\ Advance(UsageExamplesSec(Cur, rec), "performance")

PerformanceNotes == pc = "performance" /\ Advance(PerformanceNotesSec(Cur, rec), "errorhandling")

ErrorHandling == pc = "errorhandling" /\ Advance(ErrorHandlingSec(Cur, rec), "history")

(* the last section and `return doc` *)
FullVersionHistory ==
    /\ pc = "history"
    /\ LET s == FullVersionHistorySec(Cur, rec)
       IN  /\ doc' = s.doc
           /\ section_num' = s.section_num
           /\ pc' = "done"
           /\ ret' = [status |-> "ok", doc |-> s.doc]
    /\ UNCHANGED rec

Next ==
    \/ Header
    \/ RecentChanges
    \/ Purpose
    \/ WhatsNew
    \/ Parameters
    \/ LogicFlow
    \/ Dependencies
    \/ UsageExamples
    \/ PerformanceNotes
    \/ ErrorHandling
    \/ FullVersionHistory

Spec == Init /\ [][Next]_vars

(* ---------------- reading a document ---------------- *)
IsNumbered(b) ==
    b.kind = "Heading" /\ Len(b.text) >= 2 /\ b.text[1] \in {ToString(n) : n \in 0..20}

HeadingNum(b) == CHOOSE n \in 0..20 : ToString(n) = b.text[1]

IsHeadingOf(b, title) ==
    /\ b.kind = "Heading"
    /\ \/ Len(b.text) = 1 /\ b.text[1] = title
       \/ Len(b.text) >= 2 /\ b.text[2] = title

Headings(d) == SelectSeq(d, IsNumbered)

Nums(d) == [i \in 1..Len(Headings(d)) |-> HeadingNum(Headings(d)[i])]

HasHeading(d, title) == \E i \in 1..Len(d) : IsHeadingOf(d[i], title)

HeadingIndex(d, title) == CHOOSE i \in 1..Len(d) : IsHeadingOf(d[i], title)

NumOf(d, title) == HeadingNum(d[HeadingIndex(d, title)])

(* the blocks of a section after its heading, up to its closing divider *)
Body(d, title) ==
    LET i == HeadingIndex(d, title)
        ends == {j \in (i + 1)..Len(d) : d[j].kind = "Divider" \/ d[j].kind = "Heading"}
        e == IF ends = {} THEN Len(d) + 1 ELSE CHOOSE j \in ends : \A k \in ends : j <= k
    IN  SubSeq(d, i + 1, e - 1)

OfKind(d, kind) == SelectSeq(d, LAMBDA b : b.kind = kind)

ConditionalTitles ==
    {". WHAT'S NEW IN VERSION ", ". DEPENDENCIES", ". PERFORMANCE NOTES", ". ERROR HANDLING"}

Past(labels) == pc \notin labels /\ pc # "raised"

(* ---------------- C1 ---------------- *)
(* C1: the numbers carried by the numbered section headers, read in        *)
(* emission order, are exactly 1, 2, ..., n, whatever sections are skipped *)
C1_Contiguous == Nums(doc) = [i \in 1..Len(Headings(doc)) |-> i]

C1_Witness ==
    /\ pc = "done"
    /\ rec.whatsNew = ""
    /\ ~HasHeading(doc, ". DEPENDENCIES")
    /\ HasHeading(doc, ". ERROR HANDLING")
    /\ Len(Headings(doc)) = 6

(* ---------------- C2 ---------------- *)
SpecDependenciesGate(r) ==
    /\ r.complexityScore > 30
    /\ \E k \in DOMAIN r.dependencies : r.dependencies[k] # <<>>

SpecGateCount(r) ==
    (IF r.whatsNew # "" THEN 1 ELSE 0)
    + (IF SpecDependenciesGate(r) THEN 1 ELSE 0)
    + (IF r.complexityScore > 50 /\ r.performanceNotes # "" THEN 1 ELSE 0)
    + (IF r.complexityScore > 40 /\ r.errorHandling # "" THEN 1 ELSE 0)

EmittedConditional(d) == Cardinality({t \in ConditionalTitles : HasHeading(d, t)})

C3_DependenciesGate ==
    Past({"header", "recent", "purpose", "whatsnew", "parameters", "logicflow",
          "dependencies"}) =>
        /\ HasHeading(doc, ". DEPENDENCIES") = SpecDependenciesGate(rec)
        /\ ~SpecDependenciesGate(rec) =>
               section_num = NumOf(doc, ". LOGIC FLOW") + 1

(* ---------------- C4 ---------------- *)
Malformed(r) ==
    \/ r.purpose = ""
    \/ r.spName = ""
    \/ r.schema = ""
    \/ r.complexityScore < 0
    \/ r.complexityScore > 100

(* C4: a malformed record signals ValidationError and yields no document;  *)
(* a well-formed record completes without error                            *)
C4_Validation ==
    pc \in {"done", "raised"} =>
        IF Malformed(rec)
        THEN ret.status = "ValidationError" /\ ret.doc = <<>>
        ELSE ret.status = "ok"

(* ---------------- C5 ---------------- *)
HistoryHeaderCells == << <<"Version">>, <<"Date">>, <<"Changed By">>, <<"Changes">> >>

LastSection(d) ==
    LET H == {i \in 1..Len(d) : d[i].kind = "Heading"}
        last == CHOOSE i \in H : \A j \in H : j <= i
    IN  SubSeq(d, last, Len(d))

RowsMatch(rows, history) ==
    /\ Len(rows) = Len(history)
    /\ \A i \in 1..Len(rows) :
          /\ rows[i].kind = "TableRow"
          /\ rows[i].cells[1] = <<"v", history[i].version>>
          /\ rows[i].cells[2] = <<history[i].date>>
          /\ rows[i].cells[3] = <<history[i].changedBy>>
          /\ rows[i].cells[4][1] = history[i].changes

(* C5 as stated: Full Version History is the last section and always holds *)
(* a table of one header row (Version, Date, Changed By, Changes) followed *)
(* by one row per history entry in order, also when the history is empty   *)
C5_AsStated ==
    pc = "done" =>
        LET sec == LastSection(ret.doc)
        IN  /\ IsHeadingOf(sec[1], ". FULL VERSION HISTORY")
            /\ Len(sec) >= 2
            /\ sec[2].kind = "TableHeader"
            /\ sec[2].cells = HistoryHeaderCells
            /\ RowsMatch(SubSeq(sec, 3, Len(sec)), rec.fullVersionHistory)

(* C5 amended: Full Version History is the last section; when the history  *)
(* is non-empty it holds the table (one header row, then one row per entry *)
(* in the given order); when the history is empty nothing follows its      *)
(* header                                                                  *)
C5_Amended ==
    pc = "done" =>
        LET sec == LastSection(ret.doc)
        IN  /\ IsHeadingOf(sec[1], ". FULL VERSION HISTORY")
            /\ IF rec.fullVersionHistory = <<>>
               THEN Len(sec) = 1
               ELSE /\ sec[2].kind = "TableHeader"
                    /\ sec[2].cells = HistoryHeaderCells
                    /\ RowsMatch(SubSeq(sec, 3, Len(sec)), rec.fullVersionHistory)

C5_Witness ==
    /\ pc = "done"
    /\ Len(rec.fullVersionHistory) = MaxHistory
    /\ Len(OfKind(ret.doc, "TableRow")) = MaxHistory

(* ---------------- C6 ---------------- *)
(* C6: against the same record without whatsNew, every section after       *)
(* What's New carries a number exactly one smaller, and the later sections *)
(* are the same in the same order                                          *)
C6_WhatsNewShift ==
    (pc = "done" /\ rec.whatsNew # "") =>
        LET other == create_sp_doc([rec EXCEPT !.whatsNew = ""])
            H == Headings(ret.doc)
            G == Headings(other.doc)
        IN  /\ other.err = "none"
            /\ H[2].text[2] = ". WHAT'S NEW IN VERSION "
            /\ ~HasHeading(other.doc, ". WHAT'S NEW IN VERSION ")
            /\ Len(G) = Len(H) - 1
            /\ G[1] = H[1]
            /\ \A i \in 3..Len(H) :
                  /\ G[i - 1].text[2] = H[i].text[2]
                  /\ HeadingNum(G[i - 1]) = HeadingNum(H[i]) - 1

C6_Witness ==
    /\ pc = "done"
    /\ rec.whatsNew # ""
    /\ HasHeading(ret.doc, ". DEPENDENCIES")
    /\ HasHeading(ret.doc, ". PERFORMANCE NOTES")
    /\ NumOf(ret.doc, ". PARAMETERS") = 3

(* ---------------- C7 ---------------- *)
(* C7: Performance Notes is emitted iff complexityScore > 50 and           *)
(* performanceNotes is non-empty, Error Handling iff complexityScore > 40  *)
(* and errorHandling is non-empty; when both are emitted Performance Notes *)
(* comes first with the smaller number                                     *)
C7_PerfErrGates ==
    pc = "done" =>
        /\ HasHeading(ret.doc, ". PERFORMANCE NOTES")
              = (rec.complexityScore > 50 /\ rec.performanceNotes # "")
        /\ HasHeading(ret.doc, ". ERROR HANDLING")
              = (rec.complexityScore > 40 /\ rec.errorHandling # "")
        /\ (HasHeading(ret.doc, ". PERFORMANCE NOTES") /\ HasHeading(ret.doc, ". ERROR HANDLING"))
              => /\ HeadingIndex(ret.doc, ". PERFORMANCE NOTES")
                       < HeadingIndex(ret.doc, ". ERROR HANDLING")
                 /\ NumOf(ret.doc, ". PERFORMANCE NOTES") + 1
                       = NumOf(ret.doc, ". ERROR HANDLING")

C7_Witness ==
    /\ pc = "done"
    /\ rec.complexityScore = 51
    /\ DOMAIN rec.dependencies = {}
    /\ HasHeading(ret.doc, ". PERFORMANCE NOTES")
    /\ HasHeading(ret.doc, ". ERROR HANDLING")

(* ---------------- C8 ---------------- *)
(* C8: 5 Most Recent Changes renders min(5, len(recentChanges)) bullets,   *)
(* the first entries in their order, each with its parentheses even when   *)
(* refDoc is empty; an empty recentChanges renders one placeholder         *)
(* paragraph and no bullet                                                 *)
C8_RecentChanges ==
    Past({"header", "recent"}) =>
        LET body == Body(doc, "5 MOST RECENT CHANGES")
            n == Len(rec.recentChanges)
            m == IF n < 5 THEN n ELSE 5
        IN  IF n = 0
            THEN body = <<Blk("Paragraph", <<"No changes recorded yet.">>)>>
            ELSE /\ Len(body) = m
                 /\ \A i \in 1..m :
                       /\ body[i].kind = "Bullet"
                       /\ body[i].text = <<rec.recentChanges[i].date, " - ",
                                           rec.recentChanges[i].summary, " (",
                                           rec.recentChanges[i].refDoc, ")">>

C8_Witness ==
    /\ pc = "done"
    /\ Len(rec.recentChanges) = 8
    /\ Len(Body(ret.doc, "5 MOST RECENT CHANGES")) = 5

(* ---------------- C9 ---------------- *)
QAIntro == "This is a QA validation procedure designed to verify data quality and integrity. "

IsPurposeParagraph(d, i) == i > 1 /\ IsHeadingOf(d[i - 1], ". PURPOSE")

SameStructure(d, e) ==
    /\ Len(d) = Len(e)
    /\ \A i \in 1..Len(d) : d[i].kind = e[i].kind
    /\ Nums(d) = Nums(e)

====
